---- MODULE Spec2Model ----
(***************************************************************************)
(* Model of the loan copilot backend:                                      *)
(*   - get_guideline_cache_resource_id, the per-session cache-or-create    *)
(*     tool of loan_agent/initialization_agent.py;                         *)
(*   - the session store it talks to (loan_agent.shared.session_service);  *)
(*   - the end-to-end flow get_agent_response of loan_agent/agent.py and   *)
(*     the /invoke endpoint of main.py.                                    *)
(***************************************************************************)
EXTENDS Integers, Sequences, FiniteSets, TLC

----------------------------------------------------------------------------
(* Bounds and input sets                                                   *)

\* Total number of tool requests issued in one behaviour.
MaxRequests == 3

SessionIds == {"s1", "s2"}
FileNames == {"jumbo_v1.pdf", "fha_v2.pdf"}
Procs == {"p1", "p2"}

\* Outcomes of CachedContent(name=stored_id): success, the two exception
\* classes of the first handler, and any other Exception.
ValidationOutcomes == {"ok", "NotFound", "ValueError", "Exception"}

\* Python's None, as a session reference and as a string-valued field.
NoSession == 0
NoneStr == "None"

\* A result that does not exist yet.
Pending == [kind |-> "pending"]

----------------------------------------------------------------------------
(* session.state: a dict, modelled as a set of <<key, value>> pairs        *)

EmptyState == {}
HasKey(st, k) == \E kv \in st : kv[1] = k
GetKey(st, k) == (CHOOSE kv \in st : kv[1] = k)[2]
DelKey(st, k) == {kv \in st : kv[1] # k}
SetKey(st, k, v) == DelKey(st, k) \cup {<<k, v>>}

----------------------------------------------------------------------------
(* get_guideline_cache_resource_id: the pure parts                         *)

\* A bug that keys the cache entry by filename.
CacheKeyPerFile(file) == "resource_id:" \o file

\* The one key under which the handle is kept, whatever the filename.
CacheKey(file) == "resource_id"

\* The f-string that synthesizes a handle from session.id and the filename.
HandleFor(sid, file) ==
    "guideline_cache_resource_id_for_session_" \o sid \o ":" \o file

\* A bug that inverts the test: `if session:`.
SessionMissingInverted(s) == s # NoSession

\* if not session
SessionMissing(s) == s = NoSession

\* A bug that drops the generic handler: only NotFound / ValueError caught.
CaughtNarrow(v) == v \in {"NotFound", "ValueError"}

\* except (exceptions.NotFound, ValueError) ... except Exception
Caught(v) == v \in {"NotFound", "ValueError"} \/ v = "Exception"

\* A bug that pops the entry on a hit.
OnValidPop(st, file) ==
    [state |-> DelKey(st, CacheKey(file)),
     ret |-> GetKey(st, CacheKey(file)),
     outcome |-> "returned",
     ops |-> <<"validate_ok", "return_cached">>]

\* Validation succeeded: return stored_id, state untouched.
OnValid(st, file) ==
    [state |-> st,
     ret |-> GetKey(st, CacheKey(file)),
     outcome |-> "returned",
     ops |-> <<"validate_ok", "return_cached">>]

\* A bug that returns the new handle without storing it.
CreateHandleNoStore(st, sid, file, opsBefore) ==
    [state |-> st,
     ret |-> HandleFor(sid, file),
     outcome |-> "returned",
     ops |-> opsBefore \o <<"create">>]

\* The creation tail of the function, run on state st.
CreateHandle(st, sid, file, opsBefore) ==
    [state |-> SetKey(st, CacheKey(file), HandleFor(sid, file)),
     ret |-> HandleFor(sid, file),
     outcome |-> "returned",
     ops |-> opsBefore \o <<"create">>]

\* Validation raised: both handlers delete the entry, then fall through.
OnExpired(st, sid, file) ==
    CreateHandle(DelKey(st, CacheKey(file)), sid, file, <<"validate_fail", "del">>)

\* Validation raised something no handler catches: it leaves the function.
OnUncaught(st) ==
    [state |-> st, ret |-> NoneStr, outcome |-> "raised",
     ops |-> <<"validate_fail", "raise">>]

\* Everything after the session is in hand, for validation outcome v.
ToolBody(st, sid, file, v) ==
    IF HasKey(st, CacheKey(file))
    THEN IF v = "ok" THEN OnValid(st, file)
         ELSE IF Caught(v) THEN OnExpired(st, sid, file)
         ELSE OnUncaught(st)
    ELSE CreateHandle(st, sid, file, <<>>)

----------------------------------------------------------------------------
(* State                                                                   *)

VARIABLES
    store,   \* session_service: session id -> session object (NoSession if none)
    heap,    \* session objects: <<[id, state]>>, indexed by object reference
    pc,      \* per request task: "idle", "get", "create", "check"
    arg,     \* per request task: [sid, file] of the request in flight
    sess,    \* per request task: the local variable `session`
    missed,  \* per request task: get_session returned None for this request
    log,     \* completed requests, in completion order
    fpc,         \* where the /invoke request is: "idle", "listing", "root", "init", "responded"
    invokes,     \* number of /invoke requests so far
    catalog,     \* what _list_gcs_files did in this run
    initOuts,    \* the LoanInitializationOutput objects produced in this run
    toolCalled,  \* the initialization agent called its tool in its current turn
    routerCalls, \* invocations of run_underwriting_workflow in this run
    routerText,  \* what run_underwriting_workflow returned last in this run
    rootSteps,   \* tool calls the root agent has made in this run
    outcome,     \* how get_agent_response ended
    response     \* what invoke_agent returned

toolVars == <<store, heap, pc, arg, sess, missed, log>>
flowVars == <<fpc, invokes, catalog, initOuts, toolCalled, routerCalls,
              routerText, rootSteps, outcome, response>>
vars == <<store, heap, pc, arg, sess, missed, log,
          fpc, invokes, catalog, initOuts, toolCalled, routerCalls,
          routerText, rootSteps, outcome, response>>

InFlight == {p \in Procs : pc[p] # "idle"}

Init ==
    /\ store = [s \in SessionIds |-> NoSession]
    /\ heap = <<>>
    /\ pc = [p \in Procs |-> "idle"]
    /\ arg = [p \in Procs |-> [sid |-> "s1", file |-> "jumbo_v1.pdf"]]
    /\ sess = [p \in Procs |-> NoSession]
    /\ missed = [p \in Procs |-> FALSE]
    /\ log = <<>>
    /\ fpc = "idle"
    /\ invokes = 0
    /\ catalog = Pending
    /\ initOuts = <<>>
    /\ toolCalled = FALSE
    /\ routerCalls = 0
    /\ routerText = NoneStr
    /\ rootSteps = 0
    /\ outcome = Pending
    /\ response = Pending

----------------------------------------------------------------------------
(* Session store                                                           *)

\* session_service.get_session: the stored session, or None.
get_session(sid) == store[sid]

\* session_service.create_session(..., state={}): a fresh session object
\* becomes the stored session of sid.
create_session(sid) ==
    /\ heap' = Append(heap, [id |-> sid, state |-> EmptyState])
    /\ store' = [store EXCEPT ![sid] = Len(heap) + 1]

----------------------------------------------------------------------------
(* One tool request, step by step between its suspension points            *)

\* The tool is invoked with (guideline_file_name, session_id).
Call(p, s, f) ==
    /\ pc[p] = "idle"
    /\ Len(log) + Cardinality(InFlight) < MaxRequests
    /\ pc' = [pc EXCEPT ![p] = "get"]
    /\ arg' = [arg EXCEPT ![p] = [sid |-> s, file |-> f]]
    /\ sess' = [sess EXCEPT ![p] = NoSession]
    /\ missed' = [missed EXCEPT ![p] = FALSE]
    /\ UNCHANGED <<store, heap, log>>

\* session = await session_service.get_session(...); if not session:
GetSessionStep(p) ==
    /\ pc[p] = "get"
    /\ sess' = [sess EXCEPT ![p] = get_session(arg[p].sid)]
    /\ missed' = [missed EXCEPT ![p] = (get_session(arg[p].sid) = NoSession)]
    /\ pc' = [pc EXCEPT ![p] =
                IF SessionMissing(get_session(arg[p].sid)) THEN "create" ELSE "check"]
    /\ UNCHANGED <<store, heap, arg, log>>
    /\ UNCHANGED flowVars

\* session = await session_service.create_session(..., state={})
CreateSessionStep(p) ==
    /\ pc[p] = "create"
    /\ create_session(arg[p].sid)
    /\ sess' = [sess EXCEPT ![p] = Len(heap) + 1]
    /\ pc' = [pc EXCEPT ![p] = "check"]
    /\ UNCHANGED <<arg, missed, log>>
    /\ UNCHANGED flowVars

\* From `if "resource_id" in session.state` to the return: no await inside,
\* so it runs as one step. v is what the validator does if it is called.
CheckAndReturn(p, v) ==
    /\ pc[p] = "check"
    /\ sess[p] # NoSession
    /\ LET o == sess[p]
           st == heap[o].state
           had == HasKey(st, CacheKey(arg[p].file))
           r == ToolBody(st, heap[o].id, arg[p].file, v)
       IN /\ heap' = [heap EXCEPT ![o].state = r.state]
          /\ log' = Append(log,
                [proc |-> p, sid |-> arg[p].sid, file |-> arg[p].file,
                 obj |-> o, had |-> had,
                 stale |-> IF had THEN GetKey(st, CacheKey(arg[p].file)) ELSE NoneStr,
                 validation |-> IF had THEN v ELSE "not_called",
                 outcome |-> r.outcome, ret |-> r.ret, ops |-> r.ops,
                 before |-> st, after |-> r.state])
    /\ pc' = [pc EXCEPT ![p] = "idle"]
    /\ UNCHANGED <<store, arg, sess, missed>>
    /\ UNCHANGED flowVars

\* Requests one after another: a request starts only when none is in flight.
CallInSuccession(p, s, f) ==
    /\ InFlight = {}
    /\ Call(p, s, f)
    /\ UNCHANGED flowVars

\* Requests that overlap: a request may start while another is suspended.
CallConcurrently(p, s, f) ==
    /\ Call(p, s, f)
    /\ UNCHANGED flowVars

Next ==
    \/ \E p \in Procs, s \in SessionIds, f \in FileNames : CallInSuccession(p, s, f)
    \/ \E p \in Procs : GetSessionStep(p)
    \/ \E p \in Procs : CreateSessionStep(p)
    \/ \E p \in Procs, v \in ValidationOutcomes : CheckAndReturn(p, v)

Spec == Init /\ [][Next]_vars

\* Requests that overlap: tasks interleave at the awaits.
ConcNext ==
    \/ \E p \in Procs, s \in SessionIds, f \in FileNames : CallConcurrently(p, s, f)
    \/ \E p \in Procs : GetSessionStep(p)
    \/ \E p \in Procs : CreateSessionStep(p)
    \/ \E p \in Procs, v \in ValidationOutcomes : CheckAndReturn(p, v)

ConcSpec == Init /\ [][ConcNext]_vars

----------------------------------------------------------------------------
(* The end-to-end flow: /invoke -> get_agent_response                      *)

\* /invoke requests in one behaviour, tool calls the root agent may make in
\* one run, and calls of get_guideline_cache_resource_id the initialization
\* agent may make in one behaviour.
MaxInvokes == 1
MaxRootSteps == 2
MaxFlowToolCalls == 1

\* What the hosted model and the storage service may hand back.
AmbiguityMessage == "I cannot determine the loan program from the email."
FreeText == "Here is what I found."
ListingResults == {"ok", "error"}
BucketContents == {{}, FileNames}
NestedRunResults == {"answer", "no_text", "error"}

\* Subclasses of Exception raised on the path of a request.
PythonExceptions == {"GcsError", "IndexError", "RunnerError"}

\* _list_gcs_files: the blob names, or whatever the storage client raised.
list_gcs_files(res, files) ==
    IF res = "ok"
    THEN [listing |-> res, kind |-> "return", files |-> files]
    ELSE [listing |-> res, kind |-> "raise", exc |-> "GcsError"]

\* LoanInitializationOutput: two independent Optional[str] fields, both
\* defaulting to None.
LoanInitializationOutput ==
    [resource_id : {NoneStr} \cup {HandleFor(s, f) : s \in SessionIds, f \in FileNames},
     message : {NoneStr, AmbiguityMessage}]

\* run_underwriting_workflow: the text of the nested run, or one of the two
\* fallback strings; an exception of the nested run is turned into text.
run_underwriting_workflow(nested) ==
    CASE nested = "answer" -> "Eligibility Verdict: Yes"
      [] nested = "no_text" -> "No response text found from underwriting workflow."
      [] nested = "error" -> "An error occurred during underwriting: e"

\* The end of get_agent_response: events[-1], then its first part's text or "".
ExtractResponse(events) ==
    IF Len(events) = 0
    THEN [kind |-> "raise", exc |-> "IndexError"]
    ELSE LET last_event == events[Len(events)]
         IN IF last_event.hasContent /\ Len(last_event.parts) > 0
            THEN [kind |-> "return", value |-> last_event.parts[1]]
            ELSE [kind |-> "return", value |-> ""]

\* A bug that catches only the runner's errors.
EndpointCatchesNarrow(exc) == exc = "RunnerError"

\* except Exception as e
EndpointCatches(exc) == exc \in PythonExceptions

\* invoke_agent, given how get_agent_response ended.
invoke_agent(out) ==
    IF out.kind = "return"
    THEN [response |-> out.value]
    ELSE IF EndpointCatches(out.exc)
         THEN [error |-> "An error occurred: " \o out.exc,
               traceback |-> "Traceback (most recent call last): " \o out.exc]
         ELSE [propagated |-> out.exc]

\* The event lists run_debug may return once the root agent stops calling
\* tools: none, a last event without content or without parts, or a last
\* event carrying a text the model wrote.
AnswerTexts ==
    ({initOuts[i].message : i \in 1..Len(initOuts)} \cup {routerText, FreeText})
        \ {NoneStr}
FinalEventLists ==
    {<<>>, <<[hasContent |-> FALSE, parts |-> <<>>]>>,
           <<[hasContent |-> TRUE, parts |-> <<>>]>>}
    \cup {<<[hasContent |-> TRUE, parts |-> <<txt>>]>> : txt \in AnswerTexts}

\* A request arrives at /invoke.
Invoke ==
    /\ fpc \in {"idle", "responded"}
    /\ invokes < MaxInvokes
    /\ fpc' = "listing"
    /\ invokes' = invokes + 1
    /\ catalog' = Pending
    /\ initOuts' = <<>>
    /\ toolCalled' = FALSE
    /\ routerCalls' = 0
    /\ routerText' = NoneStr
    /\ rootSteps' = 0
    /\ outcome' = Pending
    /\ response' = Pending
    /\ UNCHANGED toolVars

\* create_loan_initialization_agent: the listing succeeds and the agents are built.
ListFilesOk(files) ==
    /\ fpc = "listing"
    /\ catalog' = list_gcs_files("ok", files)
    /\ fpc' = "root"
    /\ UNCHANGED <<invokes, initOuts, toolCalled, routerCalls, routerText,
                   rootSteps, outcome, response>>
    /\ UNCHANGED toolVars

\* create_loan_initialization_agent: the listing raises; nothing between it
\* and invoke_agent's handler catches.
ListFilesFails ==
    /\ fpc = "listing"
    /\ catalog' = list_gcs_files("error", {})
    /\ outcome' = [kind |-> "raise", exc |-> catalog'.exc]
    /\ response' = invoke_agent(outcome')
    /\ fpc' = "responded"
    /\ UNCHANGED <<invokes, initOuts, toolCalled, routerCalls, routerText, rootSteps>>
    /\ UNCHANGED toolVars

\* The root agent's model calls the tool loan_initialization_agent.
RootCallsInit ==
    /\ fpc = "root"
    /\ rootSteps < MaxRootSteps
    /\ rootSteps' = rootSteps + 1
    /\ toolCalled' = FALSE
    /\ fpc' = "init"
    /\ UNCHANGED <<invokes, catalog, initOuts, routerCalls, routerText,
                   outcome, response>>
    /\ UNCHANGED toolVars

\* The initialization agent's model calls get_guideline_cache_resource_id
\* with the arguments it chose.
InitCallsTool(s, f) ==
    /\ fpc = "init"
    /\ InFlight = {}
    /\ Len(log) < MaxFlowToolCalls
    /\ Call("p1", s, f)
    /\ toolCalled' = TRUE
    /\ UNCHANGED <<fpc, invokes, catalog, initOuts, routerCalls, routerText,
                   rootSteps, outcome, response>>

\* The initialization agent's model emits its structured output; the schema
\* is all that constrains it. A resource id it reports is the tool's.
InitOutputs(out) ==
    /\ fpc = "init"
    /\ InFlight = {}
    /\ out \in LoanInitializationOutput
    /\ out.resource_id # NoneStr
        => toolCalled /\ out.resource_id = log[Len(log)].ret
    /\ initOuts' = Append(initOuts, out)
    /\ fpc' = "root"
    /\ UNCHANGED <<invokes, catalog, toolCalled, routerCalls, routerText,
                   rootSteps, outcome, response>>
    /\ UNCHANGED toolVars

\* The root agent's model calls the tool run_underwriting_workflow; nothing
\* in the code looks at the initialization output before running it.
RootCallsRouter(nested) ==
    /\ fpc = "root"
    /\ rootSteps < MaxRootSteps
    /\ rootSteps' = rootSteps + 1
    /\ routerCalls' = routerCalls + 1
    /\ routerText' = run_underwriting_workflow(nested)
    /\ UNCHANGED <<fpc, invokes, catalog, initOuts, toolCalled, outcome, response>>
    /\ UNCHANGED toolVars

\* run_debug returns its events; get_agent_response extracts the answer and
\* invoke_agent wraps it.
RunDebugReturns(events) ==
    /\ fpc = "root"
    /\ outcome' = ExtractResponse(events)
    /\ response' = invoke_agent(outcome')
    /\ fpc' = "responded"
    /\ UNCHANGED <<invokes, catalog, initOuts, toolCalled, routerCalls,
                   routerText, rootSteps>>
    /\ UNCHANGED toolVars

\* run_debug raises (the model service fails, say).
RunDebugRaises ==
    /\ fpc = "root"
    /\ outcome' = [kind |-> "raise", exc |-> "RunnerError"]
    /\ response' = invoke_agent(outcome')
    /\ fpc' = "responded"
    /\ UNCHANGED <<invokes, catalog, initOuts, toolCalled, routerCalls,
                   routerText, rootSteps>>
    /\ UNCHANGED toolVars

FlowNext ==
    \/ Invoke
    \/ \E files \in BucketContents : ListFilesOk(files)
    \/ ListFilesFails
    \/ RootCallsInit
    \/ \E s \in SessionIds, f \in FileNames : InitCallsTool(s, f)
    \/ \E out \in LoanInitializationOutput : InitOutputs(out)
    \/ \E nested \in NestedRunResults : RootCallsRouter(nested)
    \/ \E events \in FinalEventLists : RunDebugReturns(events)
    \/ RunDebugRaises
    \/ \E p \in Procs : GetSessionStep(p)
    \/ \E p \in Procs : CreateSessionStep(p)
    \/ \E p \in Procs, v \in ValidationOutcomes : CheckAndReturn(p, v)

FlowSpec == Init /\ [][FlowNext]_vars

----------------------------------------------------------------------------
(* Properties of get_guideline_cache_resource_id                           *)

Range(seq) == {seq[i] : i \in 1..Len(seq)}
\* The values held in a session state.
Values(st) == {kv[2] : kv \in st}
FailedValidations == ValidationOutcomes \ {"ok"}

\* Index in log of the request that completed last before request j on the
\* same session id; 0 if j is the first on its session.
PrevOnSession(j) ==
    LET S == {i \in 1..(j - 1) : log[i].sid = log[j].sid}
    IN IF S = {} THEN 0 ELSE CHOOSE i \in S : \A k \in S : k <= i

\* Request j directly follows a request for the same (session, filename).
RepeatsPrevious(j) ==
    /\ PrevOnSession(j) # 0
    /\ log[PrevOnSession(j)].file = log[j].file
    /\ log[PrevOnSession(j)].outcome = "returned"

\* C1: two requests in succession for the same (S, F), the validator not
\* failing for the cached handle at the second: the second returns the value
\* the first returned, creates no handle, and leaves session state as the
\* first left it.
C1_IdempotentCacheHit ==
    \A j \in 1..Len(log) :
        (RepeatsPrevious(j) /\ log[j].validation \notin FailedValidations)
        => /\ log[j].outcome = "returned"
           /\ log[j].ret = log[PrevOnSession(j)].ret
           /\ "create" \notin Range(log[j].ops)
           /\ log[j].before = log[PrevOnSession(j)].after
           /\ log[j].after = log[PrevOnSession(j)].after

C1_Witness ==
    \E j \in 1..Len(log) :
        /\ RepeatsPrevious(j)
        /\ log[j].validation = "ok"
        /\ log[j].ret = log[PrevOnSession(j)].ret

\* Request j found a cached handle for its own filename and the validator
\* reported not-found for it.
StaleForSameFile(j) ==
    /\ log[j].had
    /\ log[j].stale = HandleFor(log[j].sid, log[j].file)
    /\ log[j].validation = "NotFound"

\* C2: a cached handle for F that the validator reports not-found is replaced,
\* at the next request for the same (S, F), by a handle of a distinct value,
\* and the stale value is no longer in session state.
C2_FreshHandleDistinctFromStale ==
    \A j \in 1..Len(log) :
        StaleForSameFile(j)
        => /\ log[j].ret # log[j].stale
           /\ log[j].stale \notin Values(log[j].after)

\* C5: every session's state holds at most one cached resource handle.
C5_AtMostOneHandlePerSession ==
    \A o \in 1..Len(heap) : Cardinality(heap[o].state) <= 1

\* A session object on which handles for two filenames were created.
C5_Witness ==
    \E i, j \in 1..Len(log) :
        /\ i < j
        /\ log[i].obj = log[j].obj
        /\ log[i].file # log[j].file
        /\ "create" \in Range(log[i].ops)
        /\ "create" \in Range(log[j].ops)
        /\ Cardinality(heap[log[j].obj].state) = 1

\* C8: a request that finds a handle whose validation fails, for whatever
\* reason, deletes the stale entry, then creates, stores and returns a handle;
\* nothing is raised and the session state ends holding the returned handle.
C8_StaleHandleRecoveredLocally ==
    \A j \in 1..Len(log) :
        (log[j].had /\ log[j].validation \in FailedValidations)
        => /\ log[j].outcome = "returned"
           /\ log[j].ops = <<"validate_fail", "del", "create">>
           /\ log[j].after # EmptyState
           /\ Values(log[j].after) = {log[j].ret}

C8_Witness ==
    \E j \in 1..Len(log) :
        /\ log[j].had
        /\ log[j].validation = "Exception"
        /\ log[j].outcome = "returned"

\* C10: the handle returned for a request naming F on session S is the one
\* synthesized from (id of S, F).
C10_ReturnedHandleNamesRequestedFile ==
    \A j \in 1..Len(log) :
        log[j].outcome = "returned"
        => log[j].ret = HandleFor(log[j].sid, log[j].file)

\* Two overlapping requests on one session id both saw get_session return
\* None and are both past create_session.
BothMissedAndCreated(p, q) ==
    /\ p # q
    /\ arg[p].sid = arg[q].sid
    /\ missed[p] /\ missed[q]
    /\ pc[p] = "check" /\ pc[q] = "check"

\* C9: two requests sharing a session id, interleaved at the awaits, race on
\* creation: when both observe a missing session, each creates a session
\* state of its own, and only one of the two is the stored session.
C9_DoubleCreateRace ==
    \A p, q \in Procs :
        BothMissedAndCreated(p, q)
        => /\ sess[p] # NoSession /\ sess[q] # NoSession
           /\ sess[p] # sess[q]
           /\ heap[sess[p]].id = heap[sess[q]].id
           /\ store[arg[p].sid] \in {sess[p], sess[q]}

C9_Witness ==
    \E p, q \in Procs :
        /\ BothMissedAndCreated(p, q)
        /\ sess[p] # sess[q]
        /\ store[arg[p].sid] = sess[q]

----------------------------------------------------------------------------
(* Properties of the end-to-end flow                                       *)

\* Every initialization output of this run is of the ambiguous branch: a null
\* resource_id and a message.
InitYieldedNull ==
    /\ Len(initOuts) > 0
    /\ \A i \in 1..Len(initOuts) :
          initOuts[i].resource_id = NoneStr /\ initOuts[i].message # NoneStr

\* C3: in a run whose initialization stage yields a null resource_id,
\* run_underwriting_workflow is never invoked and the answer returned is the
\* initialization stage's message, verbatim.
C3_NullHandleNeverRoutes ==
    InitYieldedNull
    => /\ routerCalls = 0
       /\ (fpc = "responded" /\ outcome.kind = "return")
            => outcome.value = initOuts[Len(initOuts)].message

\* C4: when the storage listing fails, _list_gcs_files returns an empty list
\* and the request does not end by raising.
C4_ListingFailureYieldsEmptyList ==
    (catalog.kind # "pending" /\ catalog.listing = "error")
    => /\ catalog.kind = "return"
       /\ catalog.files = {}
       /\ outcome.kind # "raise"

\* C6: every initialization output is either resolved (resource_id set,
\* message null) or ambiguous (resource_id null, message set).
C6_OutputIsTagged ==
    \A i \in 1..Len(initOuts) :
        \/ initOuts[i].resource_id # NoneStr /\ initOuts[i].message = NoneStr
        \/ initOuts[i].resource_id = NoneStr /\ initOuts[i].message # NoneStr

\* C7: /invoke answers every request with an object: {response} holding the
\* value get_agent_response returned, or {error, traceback} when it raised;
\* no exception leaves the endpoint.
C7_EndpointNeverPropagates ==
    fpc = "responded"
    => /\ outcome.kind \in {"return", "raise"}
       /\ outcome.kind = "return" => response = [response |-> outcome.value]
       /\ outcome.kind = "raise" => DOMAIN response = {"error", "traceback"}

\* A request answered after events[-1] raised on an empty event list.
C7_Witness ==
    /\ fpc = "responded"
    /\ outcome = [kind |-> "raise", exc |-> "IndexError"]
    /\ DOMAIN response = {"error", "traceback"}

----------------------------------------------------------------------------
(* The cache entry after a request                                         *)

\* Request j left the entry 'resource_id' present and equal to what it returned.
EntryIsReturned(j) ==
    /\ log[j].outcome = "returned"
    /\ HasKey(log[j].after, "resource_id")
    /\ GetKey(log[j].after, "resource_id") = log[j].ret

\* C11: after every completed request, whichever branch it took, the session
\* state's 'resource_id' entry is present and equals the value the request
\* returned; a session state without the entry has served no completed
\* request yet.
C11_EntryEqualsReturnedValue ==
    /\ \A j \in 1..Len(log) : EntryIsReturned(j)
    /\ \A o \in 1..Len(heap) :
          ~HasKey(heap[o].state, "resource_id")
          => \A j \in 1..Len(log) : log[j].obj # o
    /\ \A o \in 1..Len(heap), j \in 1..Len(log) :
          (log[j].obj = o /\ \A k \in (j + 1)..Len(log) : log[k].obj # o)
          => heap[o].state = log[j].after

\* One session has completed a request of each branch: creation with no
\* handle, a cache hit, and expiry followed by recreation.
C11_Witness ==
    \E i, j, k \in 1..Len(log) :
        /\ log[i].obj = log[j].obj /\ log[j].obj = log[k].obj
        /\ log[i].ops = <<"create">>
        /\ log[j].ops = <<"validate_ok", "return_cached">>
        /\ log[k].ops = <<"validate_fail", "del", "create">>
        /\ EntryIsReturned(i) /\ EntryIsReturned(j) /\ EntryIsReturned(k)

====
